---- MODULE Spec2Model ----
(***************************************************************************)
(* A model of the Rush runtime value engine (src/runtime/runtime.c): the   *)
(* tagged RushObject, its constructors, the four arithmetic operations and *)
(* the printers.                                                           *)
(*                                                                         *)
(* The machine word (long long) and the double share one width, as in the  *)
(* source (8 bytes each).  The model scales that width down to WordBits    *)
(* bits and gives the double an IEEE-754 layout inside it: one sign bit,   *)
(* ExpBits exponent bits and ManBits fraction bits, with subnormals,       *)
(* signed zeros, infinities, NaNs and round-to-nearest-even.               *)
(***************************************************************************)
EXTENDS Integers, Sequences, FiniteSets, TLC

\* ------------------------------------------------------------------------
\* Word and double layout
\* ------------------------------------------------------------------------
WordBits == 5
ExpBits == (WordBits + 1) \div 2
ManBits == WordBits - 1 - ExpBits

WordMod == 2 ^ WordBits
MinInt == -(2 ^ (WordBits - 1))
MaxInt == (2 ^ (WordBits - 1)) - 1
Words == MinInt..MaxInt

ManMod == 2 ^ ManBits
ExpAll == (2 ^ ExpBits) - 1
Bias == (2 ^ (ExpBits - 1)) - 1
\* 1.0 is 2^UnitShift times the smallest subnormal.
UnitShift == Bias - 1 + ManBits
InfPat == ExpAll * ManMod

\* enum RushObjectType
RUSH_NULL == 0
RUSH_INTEGER == 1
RUSH_FLOAT == 2
RUSH_BOOLEAN == 3
RUSH_STRING == 4

\* A double, by its IEEE-754 fields.
Doubles == [sign : 0..1, exp : 0..ExpAll, man : 0..(ManMod - 1)]

Abs(n) == IF n < 0 THEN -n ELSE n

\* Two's-complement reduction of a mathematical integer into long long.
\* Signed overflow of +, - and * is undefined in C; the add, sub and imul
\* instructions the operations compile to leave the wrapped result.
WrapLL(n) == LET u == n % WordMod IN IF u >= 2 ^ (WordBits - 1) THEN u - WordMod ELSE u

\* *(long long*)&value : the double's bit pattern read as a long long.
BitsOfDouble(d) == WrapLL(d.sign * (2 ^ (WordBits - 1)) + d.exp * ManMod + d.man)

\* *(double*)&obj.value : the long long's bit pattern read as a double.
DoubleOfBits(v) ==
  LET u == v % WordMod
  IN [sign |-> u \div (2 ^ (WordBits - 1)),
      exp |-> (u % (2 ^ (WordBits - 1))) \div ManMod,
      man |-> u % ManMod]

\* ------------------------------------------------------------------------
\* IEEE-754 arithmetic of the double (round to nearest, ties to even)
\* ------------------------------------------------------------------------
IsNaN(d) == d.exp = ExpAll /\ d.man # 0
IsInf(d) == d.exp = ExpAll /\ d.man = 0
IsZero(d) == d.exp = 0 /\ d.man = 0
IsFinite(d) == d.exp < ExpAll

\* A finite double is Sig(d) * 2^Ex(d), signed.
Sig(d) == IF d.exp = 0 THEN d.man ELSE ManMod + d.man
Ex(d) == (IF d.exp = 0 THEN 1 ELSE d.exp) - Bias - ManBits
\* Magnitude in units of the smallest subnormal.
Mag(d) == Sig(d) * (2 ^ (Ex(d) + UnitShift))
Num(d) == IF d.sign = 1 THEN -Mag(d) ELSE Mag(d)

\* Magnitude of the positive pattern b; the infinity pattern stands for the
\* power of two above the largest finite value, which is where rounding
\* overflows.
PatMag == [b \in 0..InfPat |->
             IF b < ManMod THEN b ELSE (ManMod + (b % ManMod)) * (2 ^ ((b \div ManMod) - 1))]

PatDouble(s, b) == [sign |-> s, exp |-> b \div ManMod, man |-> b % ManMod]

Inf(s) == [sign |-> s, exp |-> ExpAll, man |-> 0]
Zero(s) == [sign |-> s, exp |-> 0, man |-> 0]

\* The quiet NaNs.  Which one an operation delivers (sign, payload) depends on
\* the instruction set, so an invalid operation yields any of them.
QNaNs == {d \in Doubles : d.exp = ExpAll /\ d.man >= 2 ^ (ManBits - 1) /\ d.man # 0}

\* Round the positive rational (p / q) * 2^x to the nearest positive pattern.
RoundPat(p, q, x) ==
  IF x >= ExpAll + ManBits + 2 THEN InfPat
  ELSE
    LET sh == x + UnitShift
        P == IF sh >= 0 THEN p * (2 ^ sh) ELSE p
        Q == IF sh >= 0 THEN q ELSE q * (2 ^ (-sh))
    IN IF P >= PatMag[InfPat] * Q THEN InfPat
       ELSE LET lo == CHOOSE b \in 0..(InfPat - 1) :
                         PatMag[b] * Q <= P /\ PatMag[b + 1] * Q > P
                mid == (PatMag[lo] + PatMag[lo + 1]) * Q
            IN IF 2 * P < mid THEN lo
               ELSE IF 2 * P > mid THEN lo + 1
               ELSE IF lo % 2 = 0 THEN lo ELSE lo + 1

\* (double)n for a long long n.
IntToDouble(n) == PatDouble(IF n < 0 THEN 1 ELSE 0, RoundPat(Abs(n), 1, 0))

Neg(d) == [d EXCEPT !.sign = 1 - d.sign]

\* a + b : the set of doubles the addition can deliver.
FAdd(a, b) ==
  IF IsNaN(a) \/ IsNaN(b) THEN QNaNs
  ELSE IF IsInf(a) /\ IsInf(b) THEN (IF a.sign = b.sign THEN {a} ELSE QNaNs)
  ELSE IF IsInf(a) THEN {a}
  ELSE IF IsInf(b) THEN {b}
  ELSE LET s == Num(a) + Num(b)
       IN IF s = 0
          THEN {Zero(IF a.sign = 1 /\ b.sign = 1 THEN 1 ELSE 0)}
          ELSE {PatDouble(IF s < 0 THEN 1 ELSE 0, RoundPat(Abs(s), 1, -UnitShift))}

FSub(a, b) == FAdd(a, Neg(b))

FMul(a, b) ==
  LET s == (a.sign + b.sign) % 2
  IN IF IsNaN(a) \/ IsNaN(b) THEN QNaNs
     ELSE IF (IsInf(a) /\ IsZero(b)) \/ (IsZero(a) /\ IsInf(b)) THEN QNaNs
     ELSE IF IsInf(a) \/ IsInf(b) THEN {Inf(s)}
     ELSE IF IsZero(a) \/ IsZero(b) THEN {Zero(s)}
     ELSE {PatDouble(s, RoundPat(Sig(a) * Sig(b), 1, Ex(a) + Ex(b)))}

FDiv(a, b) ==
  LET s == (a.sign + b.sign) % 2
  IN IF IsNaN(a) \/ IsNaN(b) THEN QNaNs
     ELSE IF (IsInf(a) /\ IsInf(b)) \/ (IsZero(a) /\ IsZero(b)) THEN QNaNs
     ELSE IF IsInf(a) \/ IsZero(b) THEN {Inf(s)}
     ELSE IF IsInf(b) \/ IsZero(a) THEN {Zero(s)}
     ELSE {PatDouble(s, RoundPat(Sig(a), Sig(b), Ex(a) - Ex(b)))}

\* ------------------------------------------------------------------------
\* RushObject and its constructors
\* ------------------------------------------------------------------------
\* typedef struct { int type; long long value; } RushObject;
RushObject(t, v) == [type |-> t, value |-> v]

\* The caller's string buffers: address -> the bytes before the terminator.
StrMem == (3 :> <<"h", "i">>) @@ (9 :> <<>>)
NULL_PTR == 0
StrPtrs == {NULL_PTR} \cup DOMAIN StrMem

\* Arguments of type int handed to rush_make_boolean.
IntArgs == {-1, 0, 1, 2}

rush_make_integer(value) == RushObject(RUSH_INTEGER, value)

\* (long long)value : the double's value truncated to an integer (the
\* integer indefinite LLONG_MIN when it has none in range).
TruncToInt(d) ==
  IF ~IsFinite(d) \/ Mag(d) \div (2 ^ UnitShift) > MaxInt THEN MinInt
  ELSE (IF d.sign = 1 THEN -1 ELSE 1) * (Mag(d) \div (2 ^ UnitShift))

rush_make_float_converted(value) == RushObject(RUSH_FLOAT, TruncToInt(value))

rush_make_float(value) == RushObject(RUSH_FLOAT, BitsOfDouble(value))

rush_make_boolean_raw(value) == RushObject(RUSH_BOOLEAN, value)

rush_make_boolean(value) == RushObject(RUSH_BOOLEAN, IF value # 0 THEN 1 ELSE 0)

rush_make_string(value) == RushObject(RUSH_STRING, value)

rush_make_null == RushObject(RUSH_NULL, 0)

\* ------------------------------------------------------------------------
\* Arithmetic.  Each operation gives the set of RushObjects the call can
\* return (more than one only where the double result is a NaN).
\* ------------------------------------------------------------------------
\* (type == RUSH_FLOAT) ? *(double*)&value : (double)value
AsDouble(obj) ==
  IF obj.type = RUSH_FLOAT THEN DoubleOfBits(obj.value) ELSE IntToDouble(obj.value)

BothInteger(left_, right_) == left_.type = RUSH_INTEGER /\ right_.type = RUSH_INTEGER
EitherFloat(left_, right_) == left_.type = RUSH_FLOAT \/ right_.type = RUSH_FLOAT

rush_add(left_, right_) ==
  IF BothInteger(left_, right_)
  THEN {rush_make_integer(WrapLL(left_.value + right_.value))}
  ELSE IF EitherFloat(left_, right_)
  THEN {rush_make_float(d) : d \in FAdd(AsDouble(left_), AsDouble(right_))}
  ELSE {rush_make_null}

rush_subtract(left_, right_) ==
  IF BothInteger(left_, right_)
  THEN {rush_make_integer(WrapLL(left_.value - right_.value))}
  ELSE IF EitherFloat(left_, right_)
  THEN {rush_make_float(d) : d \in FSub(AsDouble(left_), AsDouble(right_))}
  ELSE {rush_make_null}

rush_multiply_checked(left_, right_) ==
  IF BothInteger(left_, right_)
  THEN IF left_.value * right_.value \in Words
       THEN {rush_make_integer(left_.value * right_.value)}
       ELSE {rush_make_null}
  ELSE IF EitherFloat(left_, right_)
  THEN {rush_make_float(d) : d \in FMul(AsDouble(left_), AsDouble(right_))}
  ELSE {rush_make_null}

rush_multiply(left_, right_) ==
  IF BothInteger(left_, right_)
  THEN {rush_make_integer(WrapLL(left_.value * right_.value))}
  ELSE IF EitherFloat(left_, right_)
  THEN {rush_make_float(d) : d \in FMul(AsDouble(left_), AsDouble(right_))}
  ELSE {rush_make_null}

\* C's integer division: the quotient truncated toward zero.
TruncDiv(a, b) ==
  LET q == Abs(a) \div Abs(b) IN IF (a < 0) = (b < 0) THEN q ELSE -q

\* LLONG_MIN / -1 : the quotient is not representable and the division is
\* undefined.  The divide instruction either raises SIGFPE (x86) or leaves
\* the wrapped quotient LLONG_MIN (AArch64).
DivideOverflows(left_, right_) ==
  BothInteger(left_, right_) /\ left_.value = MinInt /\ right_.value = -1

rush_divide_nofloatcheck(left_, right_) ==
  IF BothInteger(left_, right_)
  THEN IF right_.value = 0 THEN {rush_make_null}
       ELSE {rush_make_integer(WrapLL(TruncDiv(left_.value, right_.value)))}
  ELSE IF EitherFloat(left_, right_)
  THEN {rush_make_float(d) : d \in FDiv(AsDouble(left_), AsDouble(right_))}
  ELSE {rush_make_null}

\* The RushObjects rush_divide can return when it returns.
rush_divide(left_, right_) ==
  IF BothInteger(left_, right_)
  THEN IF right_.value = 0 THEN {rush_make_null}
       ELSE {rush_make_integer(WrapLL(TruncDiv(left_.value, right_.value)))}
  ELSE IF EitherFloat(left_, right_)
  THEN IF IsZero(AsDouble(right_)) THEN {rush_make_null}
       ELSE {rush_make_float(d) : d \in FDiv(AsDouble(left_), AsDouble(right_))}
  ELSE {rush_make_null}

\* ------------------------------------------------------------------------
\* Text rendering (printf's conversions)
\* ------------------------------------------------------------------------
DigitChar == <<"0", "1", "2", "3", "4", "5", "6", "7", "8", "9">>

RECURSIVE Digits(_)
Digits(n) == IF n < 10 THEN <<DigitChar[n + 1]>> ELSE Digits(n \div 10) \o <<DigitChar[(n % 10) + 1]>>

\* "%lld"
FormatLLD(n) == IF n < 0 THEN <<"-">> \o Digits(-n) ELSE Digits(n)

RECURSIVE StripZeros(_)
StripZeros(s) ==
  IF s # <<>> /\ s[Len(s)] = "0" THEN StripZeros(SubSeq(s, 1, Len(s) - 1)) ELSE s

RECURSIVE ZerosSeq(_)
ZerosSeq(n) == IF n <= 0 THEN <<>> ELSE <<"0">> \o ZerosSeq(n - 1)

\* Significant digits "%g" keeps by default.
GPrecision == 6

\* p / q rounded to the nearest integer, ties to the even one.
RoundDiv(p, q) ==
  LET f == p \div q
      r == p % q
  IN IF 2 * r < q THEN f
     ELSE IF 2 * r > q THEN f + 1
     ELSE IF f % 2 = 0 THEN f ELSE f + 1

\* For 0 < m < den: the least k with m * 10^k >= den.
RECURSIVE LeadingZeros(_, _)
LeadingZeros(m, den) == IF m >= den THEN 0 ELSE 1 + LeadingZeros(m * 10, den)

\* "%g" of the finite positive value m / 2^UnitShift.
FormatGMag(m) ==
  LET den == 2 ^ UnitShift
      \* floor(log10(value))
      X0 == IF m >= den THEN Len(Digits(m \div den)) - 1 ELSE -LeadingZeros(m, den)
      sc == (GPrecision - 1) - X0
      D0 == IF sc >= 0 THEN RoundDiv(m * (10 ^ sc), den) ELSE RoundDiv(m, den * (10 ^ (-sc)))
      carry == D0 = 10 ^ GPrecision
      D == IF carry THEN 10 ^ (GPrecision - 1) ELSE D0
      X == IF carry THEN X0 + 1 ELSE X0
      S == Digits(D)
      expDigits == IF Abs(X) < 10 THEN <<"0">> \o Digits(Abs(X)) ELSE Digits(Abs(X))
      frac(t) == IF StripZeros(t) = <<>> THEN <<>> ELSE <<".">> \o StripZeros(t)
  IN IF X < -4 \/ X >= GPrecision
     THEN <<S[1]>> \o frac(SubSeq(S, 2, Len(S))) \o <<"e", IF X < 0 THEN "-" ELSE "+">> \o expDigits
     ELSE IF X >= 0
     THEN SubSeq(S, 1, X + 1) \o frac(SubSeq(S, X + 2, Len(S)))
     ELSE <<"0">> \o frac(ZerosSeq(-X - 1) \o S)

\* "%g"
FormatG(d) ==
  (IF d.sign = 1 THEN <<"-">> ELSE <<>>) \o
  (IF IsNaN(d) THEN <<"n", "a", "n">>
   ELSE IF IsInf(d) THEN <<"i", "n", "f">>
   ELSE IF IsZero(d) THEN <<"0">>
   ELSE FormatGMag(Mag(d)))

\* "%s" : the bytes at the address up to the terminator; glibc renders a
\* null pointer as "(null)".
FormatS(p) == IF p = NULL_PTR THEN <<"(", "n", "u", "l", "l", ")">> ELSE StrMem[p]

PrintObjectText_nodefault(obj) ==
  CASE obj.type = RUSH_INTEGER -> FormatLLD(obj.value)
    [] obj.type = RUSH_FLOAT -> FormatG(DoubleOfBits(obj.value))
    [] obj.type = RUSH_BOOLEAN -> (IF obj.value # 0 THEN <<"t", "r", "u", "e">>
                                   ELSE <<"f", "a", "l", "s", "e">>)
    [] obj.type = RUSH_STRING -> FormatS(obj.value)
    [] obj.type = RUSH_NULL -> <<"n", "u", "l", "l">>
    [] OTHER -> <<>>

\* The text rush_print_object hands to printf.
PrintObjectText(obj) ==
  CASE obj.type = RUSH_INTEGER -> FormatLLD(obj.value)
    [] obj.type = RUSH_FLOAT -> FormatG(DoubleOfBits(obj.value))
    [] obj.type = RUSH_BOOLEAN -> (IF obj.value # 0 THEN <<"t", "r", "u", "e">>
                                   ELSE <<"f", "a", "l", "s", "e">>)
    [] obj.type = RUSH_STRING -> FormatS(obj.value)
    [] OTHER -> <<"n", "u", "l", "l">>

\* ------------------------------------------------------------------------
\* State
\* ------------------------------------------------------------------------
VARIABLES
  left,       \* left operand of the last arithmetic call / a value the caller holds
  right,      \* right operand of the last arithmetic call / a value the caller holds
  result,     \* the RushObject the last constructor or arithmetic call returned
  op,         \* the last call made
  arg,        \* the native argument of the last constructor or printer call
  fault,      \* the process was killed by a signal
  emitted,    \* the bytes the last printer call handed to write() and printf()
  stdoutBuf,  \* bytes held in stdio's buffer of stdout
  fd,         \* bytes delivered to file descriptor STDOUT_FILENO
  sent,       \* all printer calls' bytes, in call order
  mode        \* stdio's buffering of stdout: "line" (terminal) or "full" (pipe, file)

vars == <<left, right, result, op, arg, fault, emitted, stdoutBuf, fd, sent, mode>>
printVars == <<emitted, stdoutBuf, fd, sent, mode>>
valueVars == <<left, right, result>>

ArithOps == {"add", "subtract", "multiply", "divide"}

InitCommon ==
  /\ left = rush_make_null
  /\ right = rush_make_null
  /\ result = rush_make_null
  /\ op = "start"
  /\ arg = 0
  /\ fault = FALSE
  /\ emitted = <<>>
  /\ stdoutBuf = <<>>
  /\ fd = <<>>
  /\ sent = <<>>

Init == InitCommon /\ mode = "line"

\* The constructor returns obj; the caller keeps it as its left or its right
\* operand.
Construct(name, a, obj) ==
  /\ op' = name
  /\ arg' = a
  /\ result' = obj
  /\ \/ left' = obj /\ right' = right
     \/ right' = obj /\ left' = left
  /\ UNCHANGED <<fault, printVars>>

MakeInteger ==
  /\ ~fault
  /\ \E v \in Words : Construct("make_integer", v, rush_make_integer(v))

MakeFloat ==
  /\ ~fault
  /\ \E d \in Doubles : Construct("make_float", d, rush_make_float(d))

MakeBoolean ==
  /\ ~fault
  /\ \E v \in IntArgs : Construct("make_boolean", v, rush_make_boolean(v))

MakeString ==
  /\ ~fault
  /\ \E p \in StrPtrs : Construct("make_string", p, rush_make_string(p))

MakeNull ==
  /\ ~fault
  /\ Construct("make_null", 0, rush_make_null)

\* The operand pairs a caller can pass: the values it holds, with the last
\* returned value in place of either or both.
OperandPairs == {<<left, right>>, <<result, right>>, <<left, result>>, <<result, result>>}

Returns(name, l, r, obj) ==
  /\ op' = name
  /\ arg' = 0
  /\ left' = l
  /\ right' = r
  /\ result' = obj
  /\ UNCHANGED <<fault, printVars>>

Add ==
  /\ ~fault
  /\ \E p \in OperandPairs : \E obj \in rush_add(p[1], p[2]) : Returns("add", p[1], p[2], obj)

Subtract ==
  /\ ~fault
  /\ \E p \in OperandPairs : \E obj \in rush_subtract(p[1], p[2]) :
       Returns("subtract", p[1], p[2], obj)

Multiply ==
  /\ ~fault
  /\ \E p \in OperandPairs : \E obj \in rush_multiply(p[1], p[2]) :
       Returns("multiply", p[1], p[2], obj)

Divide ==
  /\ ~fault
  /\ \E p \in OperandPairs :
       \/ \E obj \in rush_divide(p[1], p[2]) : Returns("divide", p[1], p[2], obj)
       \/ /\ DivideOverflows(p[1], p[2])
          /\ op' = "divide"
          /\ arg' = 0
          /\ left' = p[1]
          /\ right' = p[2]
          /\ fault' = TRUE
          /\ UNCHANGED <<result, printVars>>

Next ==
  \/ MakeInteger
  \/ MakeFloat
  \/ MakeBoolean
  \/ MakeString
  \/ MakeNull
  \/ Add
  \/ Subtract
  \/ Multiply
  \/ Divide

Spec == Init /\ [][Next]_vars

\* ------------------------------------------------------------------------
\* Printers.  rush_print and rush_print_line call write() on the descriptor;
\* rush_print_object and rush_println call printf(), which goes through
\* stdio's buffer of stdout.
\* ------------------------------------------------------------------------
\* Size of stdio's buffer (BUFSIZ), scaled down.
BufSize == 4
\* Printer calls are made while fewer than MaxOut bytes have been produced.
MaxOut == 2

\* Kinds and payloads of the RushObjects handed to the printers; the kinds
\* -1 and 5 are outside the enum.
PrintKinds == (-1)..5
PrintPayloads == Words
PrintObjects ==
  {o \in [type : PrintKinds, value : PrintPayloads] :
     o.type = RUSH_STRING => o.value \in StrPtrs}

\* (address, length) pairs handed to the raw printers.
RawBuffers == {b \in (DOMAIN StrMem) \X (0..2) : b[2] <= Len(StrMem[b[1]])}
BufferBytes(b) == SubSeq(StrMem[b[1]], 1, b[2])

NL == <<"\n">>

RECURSIVE LastNewline(_)
LastNewline(s) ==
  IF s = <<>> THEN 0 ELSE IF s[Len(s)] = "\n" THEN Len(s) ELSE LastNewline(SubSeq(s, 1, Len(s) - 1))

\* printf(text) on the stream st = [buf, fd]: the text is appended to the
\* buffer; full blocks are written out once the buffer overflows, and a
\* line-buffered stream is written out through the last newline.
Printf(st, text) ==
  LET data == st.buf \o text
      nFull == IF Len(data) <= BufSize THEN 0 ELSE (Len(data) \div BufSize) * BufSize
      nLine == IF mode = "line" /\ LastNewline(text) > 0 THEN LastNewline(data) ELSE 0
      n == IF nFull > nLine THEN nFull ELSE nLine
  IN [buf |-> SubSeq(data, n + 1, Len(data)), fd |-> st.fd \o SubSeq(data, 1, n)]

Stream == [buf |-> stdoutBuf, fd |-> fd]

\* write(STDOUT_FILENO, ...) of the bytes, by a raw printer.
Wrote(name, b, bytes) ==
  /\ op' = name
  /\ arg' = b
  /\ emitted' = bytes
  /\ sent' = sent \o bytes
  /\ fd' = fd \o bytes
  /\ UNCHANGED <<stdoutBuf, mode, fault, valueVars>>

\* The stream after a Value printer's printf calls.
Printed(name, obj, bytes, st) ==
  /\ op' = name
  /\ arg' = obj
  /\ emitted' = bytes
  /\ sent' = sent \o bytes
  /\ stdoutBuf' = st.buf
  /\ fd' = st.fd
  /\ UNCHANGED <<mode, fault, valueVars>>

\* printf("%s", p) with a null p is undefined: glibc's printf renders
\* "(null)", and a build that compiles the call to fputs(p, stdout) reads
\* through the null pointer and is killed by SIGSEGV.
NullString(obj) == obj.type = RUSH_STRING /\ obj.value = NULL_PTR

Killed(name, obj) ==
  /\ op' = name
  /\ arg' = obj
  /\ emitted' = <<>>
  /\ fault' = TRUE
  /\ UNCHANGED <<sent, stdoutBuf, fd, mode, valueVars>>

CanPrint == ~fault /\ Len(sent) < MaxOut

rush_print ==
  /\ CanPrint
  /\ \E b \in RawBuffers : Wrote("print", b, BufferBytes(b))

rush_print_line ==
  /\ CanPrint
  /\ \E b \in RawBuffers : Wrote("print_line", b, BufferBytes(b) \o NL)

rush_print_object ==
  /\ CanPrint
  /\ \E obj \in PrintObjects :
       \/ Printed("print_object", obj, PrintObjectText(obj),
                  Printf(Stream, PrintObjectText(obj)))
       \/ NullString(obj) /\ Killed("print_object", obj)

rush_println ==
  /\ CanPrint
  /\ \E obj \in PrintObjects :
       \/ Printed("println", obj, PrintObjectText(obj) \o NL,
                  Printf(Printf(Stream, PrintObjectText(obj)), NL))
       \/ NullString(obj) /\ Killed("println", obj)

InitPrint == InitCommon /\ mode \in {"line", "full"}

NextPrint ==
  \/ rush_print
  \/ rush_print_line
  \/ rush_print_object
  \/ rush_println

SpecPrint == InitPrint /\ [][NextPrint]_vars

\* ------------------------------------------------------------------------
\* Properties of the arithmetic operations (checked under Spec)
\* ------------------------------------------------------------------------
IsArith == op \in ArithOps

\* The right operand's value, read as rush_divide reads it, is zero.
RightIsZero ==
  IF right.type = RUSH_FLOAT THEN right.value \in {0, MinInt} ELSE right.value = 0

\* C1: in every arithmetic call, a left or right operand of kind Null gives a
\* result of kind Null, whatever the kind of the other operand.
C1_NullOperandGivesNull ==
  (IsArith /\ (left.type = RUSH_NULL \/ right.type = RUSH_NULL))
    => (~fault /\ result.type = RUSH_NULL)

NumericKinds == {RUSH_INTEGER, RUSH_FLOAT}

\* C2: the result's kind follows from the operand kinds: both Integer gives
\* Integer; else a Float with an Integer or a Float gives Float; else, with no
\* Float operand, Null.  rush_divide follows the table when the right operand
\* is not zero.
C2_KindTable ==
  (IsArith /\ (op = "divide" => ~RightIsZero))
    => /\ BothInteger(left, right) => (~fault /\ result.type = RUSH_INTEGER)
       /\ (/\ ~BothInteger(left, right)
           /\ EitherFloat(left, right)
           /\ left.type \in NumericKinds
           /\ right.type \in NumericKinds) => (~fault /\ result.type = RUSH_FLOAT)
       /\ (~BothInteger(left, right) /\ ~EitherFloat(left, right))
            => (~fault /\ result.type = RUSH_NULL)

\* C3: rush_divide returns Null when both operands are Integer and the right
\* one is 0, and when at least one operand is Float and the right operand's
\* value as a double is zero (a Float of either zero sign, or a non-Float
\* payload of 0).
C3_DivideByZeroIsNull ==
  (/\ op = "divide"
   /\ BothInteger(left, right) \/ EitherFloat(left, right)
   /\ RightIsZero)
    => (~fault /\ result.type = RUSH_NULL)

C3_Witness ==
  /\ op = "divide"
  /\ left.type = RUSH_FLOAT
  /\ right = RushObject(RUSH_INTEGER, 0)
  /\ result.type = RUSH_NULL
  /\ ~fault

\* C4: every arithmetic call completes and returns; none is killed by a
\* signal.
C4_NeverFaults == IsArith => ~fault

\* The mathematical result of the integer operation.
ExactInteger ==
  CASE op = "add" -> left.value + right.value
    [] op = "subtract" -> left.value - right.value
    [] op = "multiply" -> left.value * right.value
    [] OTHER -> 0

\* C5: add, subtract and multiply of two Integers return an Integer whose
\* payload is in the signed range and congruent to the exact result modulo
\* 2^WordBits.
C5_IntegerWraps ==
  (op \in {"add", "subtract", "multiply"} /\ BothInteger(left, right))
    => /\ ~fault
       /\ result.type = RUSH_INTEGER
       /\ result.value \in Words
       /\ (result.value - ExactInteger) % WordMod = 0

C5_Witness ==
  /\ op = "multiply"
  /\ BothInteger(left, right)
  /\ left.value * right.value > MaxInt
  /\ result.type = RUSH_INTEGER

\* C6: for Integers a and b with b # 0, rush_divide returns the Integer q with
\* a = q*b + r, |r| < |b|, and r zero or of the sign of a.
C6_TruncatedQuotient ==
  (op = "divide" /\ BothInteger(left, right) /\ right.value # 0)
    => /\ ~fault
       /\ result.type = RUSH_INTEGER
       /\ LET r == left.value - (result.value * right.value)
          IN /\ Abs(r) < Abs(right.value)
             /\ r = 0 \/ ((r < 0) = (left.value < 0))

\* ------------------------------------------------------------------------
\* Float payloads
\* ------------------------------------------------------------------------
\* The extended real a non-NaN double stands for, in units of the smallest
\* subnormal; an infinity stands for the power of two above the largest
\* finite value.
ExtNum(d) ==
  LET m == PatMag[d.exp * ManMod + d.man] IN IF d.sign = 1 THEN -m ELSE m

\* The non-NaN double d is a nearest one to the rational p / q (in units of
\* the smallest subnormal, q > 0): neither of its neighbours is closer.
NearestTo(d, p, q) ==
  LET b == d.exp * ManMod + d.man
      sgn == IF d.sign = 1 THEN -1 ELSE 1
      dist(x) == Abs((x * q) - p)
  IN /\ ~IsNaN(d)
     /\ b > 0 => dist(ExtNum(d)) <= dist(sgn * PatMag[b - 1])
     /\ b < InfPat => dist(ExtNum(d)) <= dist(sgn * PatMag[b + 1])
     /\ b = 0 => dist(0) <= dist(-PatMag[1])
     /\ b = InfPat => (sgn * p > 0)

\* The doubles an operand can stand for in floating-point arithmetic: a Float
\* payload is its bit pattern; any other payload is the integer, rounded to a
\* nearest double.
OperandDoubles(obj) ==
  IF obj.type = RUSH_FLOAT
  THEN {[sign |-> IF obj.value < 0 THEN 1 ELSE 0,
         exp |-> ((obj.value - MinInt) % (2 ^ (WordBits - 1))) \div ManMod,
         man |-> (obj.value - MinInt) % ManMod]}
  ELSE {c \in Doubles : NearestTo(c, obj.value * (2 ^ UnitShift), 1)}

\* res is a correctly rounded result of the operation on the finite doubles
\* a and b (b not zero for a division).
RoundedResult(a, b, res) ==
  CASE op = "add" -> NearestTo(res, Num(a) + Num(b), 1)
    [] op = "subtract" -> NearestTo(res, Num(a) - Num(b), 1)
    [] op = "multiply" -> NearestTo(res, Num(a) * Num(b), 2 ^ UnitShift)
    [] op = "divide" ->
         NearestTo(res, (IF Num(b) < 0 THEN -1 ELSE 1) * Num(a) * (2 ^ UnitShift), Abs(Num(b)))

\* C7: rush_make_float(d) returns a Float whose payload holds the sign,
\* exponent and fraction bits of d and reads back as d; and a Float result of
\* arithmetic on finite operands is the correctly rounded result of the
\* operation on the Float operands' bit patterns and the other operands'
\* integer payloads converted to double.
C7_FloatBits ==
  /\ op = "make_float" =>
       /\ result.type = RUSH_FLOAT
       /\ result.value \in Words
       /\ (result.value < 0) <=> (arg.sign = 1)
       /\ (result.value - MinInt) % (2 ^ (WordBits - 1)) = (arg.exp * ManMod) + arg.man
       /\ DoubleOfBits(result.value) = arg
  /\ (IsArith /\ ~fault /\ EitherFloat(left, right) /\ ~BothInteger(left, right))
       => \/ result.type = RUSH_NULL /\ op = "divide" /\ RightIsZero
          \/ /\ result.type = RUSH_FLOAT
             /\ \E a \in OperandDoubles(left), b \in OperandDoubles(right) :
                  IF IsNaN(a) \/ IsNaN(b) THEN IsNaN(DoubleOfBits(result.value))
                  ELSE IF IsInf(a) \/ IsInf(b) THEN ~IsFinite(DoubleOfBits(result.value))
                                                    \/ IsZero(DoubleOfBits(result.value))
                  ELSE RoundedResult(a, b, DoubleOfBits(result.value))

\* add(Integer 1, Float 0.5) is the Float 1.5, whose bit pattern differs from
\* the integers 0.5's and 1.5's payloads would convert to.
C7_Witness ==
  /\ op = "add"
  /\ left = RushObject(RUSH_INTEGER, 1)
  /\ right.type = RUSH_FLOAT
  /\ right.value > 0
  /\ 2 * Num(DoubleOfBits(right.value)) = 2 ^ UnitShift
  /\ result.type = RUSH_FLOAT
  /\ 2 * Num(DoubleOfBits(result.value)) = 3 * (2 ^ UnitShift)

\* ------------------------------------------------------------------------
\* Well-formed values
\* ------------------------------------------------------------------------
WellFormed(obj) ==
  /\ obj.type \in {RUSH_NULL, RUSH_INTEGER, RUSH_FLOAT, RUSH_BOOLEAN, RUSH_STRING}
  /\ obj.value \in Words
  /\ obj.type = RUSH_BOOLEAN => obj.value \in {0, 1}
  /\ obj.type = RUSH_NULL => obj.value = 0

\* C10: every RushObject a constructor or an arithmetic operation has
\* returned has a kind in 0..4, payload 0 or 1 if Boolean and payload 0 if
\* Null; rush_make_boolean maps every non-zero int to 1; and an arithmetic
\* operation returns no Boolean and no String.
C10_WellFormedValues ==
  /\ WellFormed(left)
  /\ WellFormed(right)
  /\ WellFormed(result)
  /\ op = "make_boolean" => result = RushObject(RUSH_BOOLEAN, IF arg = 0 THEN 0 ELSE 1)
  /\ op = "make_null" => result = RushObject(RUSH_NULL, 0)
  /\ (IsArith /\ ~fault) => result.type \notin {RUSH_BOOLEAN, RUSH_STRING}

C10_Witness ==
  /\ op = "make_boolean"
  /\ arg \notin {0, 1}
  /\ result = RushObject(RUSH_BOOLEAN, 1)

\* ------------------------------------------------------------------------
\* Properties of the printers (checked under SpecPrint)
\* ------------------------------------------------------------------------
IsValuePrinter == op \in {"print_object", "println"}

DigitValue(c) == CHOOSE k \in 0..9 : DigitChar[k + 1] = c

RECURSIVE DecimalValue(_)
DecimalValue(s) ==
  IF s = <<>> THEN 0 ELSE (10 * DecimalValue(SubSeq(s, 1, Len(s) - 1))) + DigitValue(s[Len(s)])

\* s is the signed decimal numeral of n: an optional minus sign for a
\* negative n only, then digits without a leading zero, reading as |n|.
IsDecimalOf(s, n) ==
  LET neg == s # <<>> /\ s[1] = "-"
      ds == IF neg THEN SubSeq(s, 2, Len(s)) ELSE s
  IN /\ neg <=> (n < 0)
     /\ ds # <<>>
     /\ \A i \in 1..Len(ds) : \E k \in 1..10 : DigitChar[k] = ds[i]
     /\ Len(ds) > 1 => ds[1] # "0"
     /\ DecimalValue(ds) = Abs(n)

\* The text without the newline rush_println appends.
EmittedText ==
  IF op = "println" THEN SubSeq(emitted, 1, Len(emitted) - 1) ELSE emitted

\* C8: rush_print_object's text is the signed decimal of the payload for an
\* Integer, "true" or "false" for a Boolean with a non-zero or zero payload,
\* and "null" for Null and for every kind outside 0..4, with no fault;
\* rush_println emits rush_print_object's text and then one newline byte.
C8_PrintedText ==
  IsValuePrinter =>
    /\ (arg.type \notin {RUSH_FLOAT, RUSH_STRING}) =>
         /\ ~fault
         /\ CASE arg.type = RUSH_INTEGER -> IsDecimalOf(EmittedText, arg.value)
              [] arg.type = RUSH_BOOLEAN ->
                   EmittedText = (IF arg.value = 0 THEN <<"f", "a", "l", "s", "e">>
                                  ELSE <<"t", "r", "u", "e">>)
              [] OTHER -> EmittedText = <<"n", "u", "l", "l">>
    /\ (op = "println" /\ ~fault) =>
         /\ Len(emitted) >= 1
         /\ emitted[Len(emitted)] = "\n"
         /\ EmittedText = PrintObjectText(arg)
         /\ \A i \in 1..Len(EmittedText) : EmittedText[i] # "\n"

C8_Witness ==
  /\ op = "println"
  /\ arg.type \notin 0..4
  /\ emitted = <<"n", "u", "l", "l", "\n">>
  /\ ~fault

\* C9: the bytes delivered to the standard output descriptor are the calls'
\* bytes in call order: what has arrived is always a leading part of the
\* concatenation of the calls' bytes, so no byte of a later call arrives
\* before a byte of an earlier call.
C9_CallOrder ==
  /\ Len(fd) <= Len(sent)
  /\ fd = SubSeq(sent, 1, Len(fd))

====
